---- MODULE Spec2Model ----
(***************************************************************************)
(* Viewport Line Renderer (src/ts/index.ts).                               *)
(*                                                                         *)
(* The file holds three independent scripts, each a complete program:      *)
(*   "plain"    lines   1..16   resizeDraw (no density ratio, no state)    *)
(*   "animated" lines  18..70   resize / update / draw / frame loop        *)
(*   "static"   lines  72..107  resize / draw / resizeDraw                 *)
(* `variant` says which of the three scripts the page runs.                *)
(*                                                                         *)
(* One step of the model is one synchronous turn of the host's event       *)
(* thread: the top-level script, one resize listener call, one animation   *)
(* frame callback, or a change of the host's own state.                    *)
(*                                                                         *)
(* Numbers.  window.innerWidth/innerHeight are integers.  A density ratio  *)
(* is the rational n / RatioDen and is stored as its numerator n.  A       *)
(* transform scale is a record [num, den].  canvas.width and canvas.height *)
(* are `unsigned long` attributes: assigning a number stores its integer   *)
(* part.  Assigning either of them also resets the bitmap to blank and the *)
(* 2D context to its default state (identity transform, empty path).       *)
(***************************************************************************)
EXTENDS Integers, Sequences, FiniteSets, TLC

\* ---------------------------------------------------------------- bounds
MaxDim == 1          \* viewport sides range over 0..MaxDim
RatioDen == 2        \* density ratios range over k/RatioDen, 1 <= k/RatioDen <= 2
MaxTime == 2         \* frame timestamps range over 0..MaxTime, never decreasing
MaxResizes == 2      \* resize notifications delivered in one run

Dims == 0..MaxDim
Ratios == RatioDen..(2 * RatioDen)
Times == 0..MaxTime
\* draw invocations are counted modulo DrawMod (the frame loop never ends)
DrawMod == MaxResizes + 2

Variants == {"plain", "animated", "static"}

VARIABLES
  variant,            \* which script the page runs
  started,            \* the top-level script has run
  innerWidth,         \* host: window.innerWidth / documentElement.clientWidth
  innerHeight,        \* host: window.innerHeight / documentElement.clientHeight
  devicePixelRatio,   \* host: window.devicePixelRatio (numerator over RatioDen)
  pixelRatio,         \* const pixelRatio (0 until the script reads it)
  state,              \* state.canvas: [width, height]
  canvas,             \* the element: [width, height, styleWidth, styleHeight]
  ctx,                \* the 2D context: [scale |-> [num, den]]
  surface,            \* the bitmap: the strokes painted on it since it was last blank
  prevTime,           \* let prevTime
  rafPending,         \* the host's list of requested frame callbacks, oldest first,
                      \* each "priming" (the first-frame closure) or "loop"
  resizeCount,        \* history: resize notifications delivered
  sizerRuns,          \* history: Surface Sizer invocations
  drawRuns,           \* history: Drawer invocations, modulo DrawMod
  turn,               \* history: the latest turn: the host event, then the calls made, in order
  updateArgs,         \* history: the dt update received in the latest turn (<<>>: not called)
  frameTimes,         \* history: the timestamps of the last two frame callbacks
  tick,               \* history: flips at every frame callback
  lastNotified        \* history: the host's viewport size and density at the latest
                      \* load or resize event: [width, height, ratio]

vars == <<variant, started, innerWidth, innerHeight, devicePixelRatio, pixelRatio,
          state, canvas, ctx, surface, prevTime, rafPending, resizeCount, sizerRuns,
          drawRuns, turn, updateArgs, frameTimes, tick, lastNotified>>

hostVars == <<innerWidth, innerHeight, devicePixelRatio>>

\* ------------------------------------------------------- host primitives
\* `${n}px`
Px(n) == [value |-> n, unit |-> "px"]
NoStyle == [value |-> 0, unit |-> ""]

Identity == [num |-> 1, den |-> 1]

\* conversion of the number n/d >= 0 to unsigned long
ToUnsignedLong(n, d) == n \div d

\* The part of the machine one turn's calls thread through.
Mach == [canvas |-> canvas, ctx |-> ctx, surface |-> surface, state |-> state,
         prevTime |-> prevTime, rafPending |-> rafPending,
         sizerRuns |-> sizerRuns, drawRuns |-> drawRuns,
         turn |-> <<>>, updateArgs |-> <<>>]

\* the machine at the start of the turn that handles host event ev
Turn(ev) == [Mach EXCEPT !.turn = <<ev>>]

\* canvas.width = n/d : store the integer part, blank the bitmap, reset the context
SetCanvasWidth(m, n, d) ==
  [m EXCEPT !.canvas.width = ToUnsignedLong(n, d),
            !.ctx = [scale |-> Identity],
            !.surface = <<>>]

\* canvas.height = n/d
SetCanvasHeight(m, n, d) ==
  [m EXCEPT !.canvas.height = ToUnsignedLong(n, d),
            !.ctx = [scale |-> Identity],
            !.surface = <<>>]

\* ctx.scale(n/d, n/d)
Scale(m, n, d) ==
  [m EXCEPT !.ctx.scale = [num |-> m.ctx.scale.num * n, den |-> m.ctx.scale.den * d]]

\* ctx.clearRect(0, 0, w, h): the rectangle in device space is
\* (0,0)..(w*scale, h*scale); it blanks the bitmap when it covers all of it,
\* and is taken to leave the strokes visible when it does not.
ClearRect(m, w, h) ==
  IF /\ w * m.ctx.scale.num >= m.canvas.width * m.ctx.scale.den
     /\ h * m.ctx.scale.num >= m.canvas.height * m.ctx.scale.den
    THEN [m EXCEPT !.surface = <<>>]
    ELSE m

\* beginPath(); moveTo(0, 0); lineTo(x, y); stroke(): one more segment on the
\* bitmap, with its user-space endpoints and the transform it was stroked under
StrokeLine(m, x, y) ==
  [m EXCEPT !.surface = Append(m.surface,
                               [from |-> <<0, 0>>, to |-> <<x, y>>, scale |-> m.ctx.scale])]

Called(m, name) == [m EXCEPT !.turn = Append(m.turn, name)]

\* requestAnimationFrame(cb)
RequestAnimationFrame(m, cb) ==
  [Called(m, "requestAnimationFrame") EXCEPT !.rafPending = Append(m.rafPending, cb)]

\* prevTime = time
SetPrevTime(m, time) == [Called(m, "prevTime") EXCEPT !.prevTime = time]

\* history: one more Sizer / Drawer invocation
CountSizer(m) == [Called(m, "Sizer") EXCEPT !.sizerRuns = m.sizerRuns + 1]
CountDrawer(m) == [Called(m, "Drawer") EXCEPT !.drawRuns = (m.drawRuns + 1) % DrawMod]

\* ------------------------------------------------- variant "plain" (1..16)
\* resizeDraw that strokes the line before it sizes the canvas
resizeDraw1_DrawFirst(m, w, h) ==
  LET m1 == StrokeLine(CountDrawer(m), m.canvas.width, m.canvas.height)
      m2 == SetCanvasWidth(CountSizer(m1), w, 1)
  IN SetCanvasHeight(m2, h, 1)

\* resizeDraw: w, h are documentElement.clientWidth / clientHeight at the call
resizeDraw1(m, w, h) ==
  LET m1 == SetCanvasWidth(CountSizer(m), w, 1)
      m2 == SetCanvasHeight(m1, h, 1)
  IN StrokeLine(CountDrawer(m2), m2.canvas.width, m2.canvas.height)

\* ---------------------------------------------- variant "animated" (18..70)
update2(m, dt) == [Called(m, "update") EXCEPT !.updateArgs = <<dt>>]

\* draw that clears by assigning the canvas its own width
draw2_ClearByResize(m) ==
  LET m1 == SetCanvasWidth(CountDrawer(m), m.canvas.width, 1)
  IN StrokeLine(m1, m1.state.width, m1.state.height)

\* draw without the clearRect call
draw2_NoClear(m) ==
  StrokeLine(CountDrawer(m), m.state.width, m.state.height)

\* draw to the backing-store corner instead of the logical one
draw2_ToBackingSize(m) ==
  LET m1 == ClearRect(CountDrawer(m), m.state.width, m.state.height)
  IN StrokeLine(m1, m1.canvas.width, m1.canvas.height)

draw2(m) ==
  LET m1 == ClearRect(CountDrawer(m), m.state.width, m.state.height)
  IN StrokeLine(m1, m1.state.width, m1.state.height)

\* resize that stores the backing-store size in state.canvas
resize2_StateFromBacking(m, w, h, r) ==
  LET m1 == SetCanvasWidth(CountSizer(m), w * r, RatioDen)
      m2 == SetCanvasHeight(m1, h * r, RatioDen)
      m3 == [m2 EXCEPT !.canvas.styleWidth = Px(w), !.canvas.styleHeight = Px(h)]
      m4 == Scale(m3, r, RatioDen)
  IN [m4 EXCEPT !.state = [width |-> m4.canvas.width, height |-> m4.canvas.height]]

\* resize that forgets to store the new height in state.canvas
resize2_StaleHeight(m, w, h, r) ==
  LET m1 == SetCanvasWidth(CountSizer(m), w * r, RatioDen)
      m2 == SetCanvasHeight(m1, h * r, RatioDen)
      m3 == [m2 EXCEPT !.canvas.styleWidth = Px(w), !.canvas.styleHeight = Px(h)]
      m4 == Scale(m3, r, RatioDen)
  IN [m4 EXCEPT !.state.width = w]

\* resize that also requests a frame for loop
resize2_RequestsFrame(m, w, h, r) ==
  LET m1 == SetCanvasWidth(CountSizer(m), w * r, RatioDen)
      m2 == SetCanvasHeight(m1, h * r, RatioDen)
      m3 == [m2 EXCEPT !.canvas.styleWidth = Px(w), !.canvas.styleHeight = Px(h)]
      m4 == Scale(m3, r, RatioDen)
  IN RequestAnimationFrame([m4 EXCEPT !.state = [width |-> w, height |-> h]], "loop")

\* resize that calls ctx.scale before it assigns the canvas size
resize2_ScaleFirst(m, w, h, r) ==
  LET m1 == Scale(CountSizer(m), r, RatioDen)
      m2 == SetCanvasWidth(m1, w * r, RatioDen)
      m3 == SetCanvasHeight(m2, h * r, RatioDen)
      m4 == [m3 EXCEPT !.canvas.styleWidth = Px(w), !.canvas.styleHeight = Px(h)]
  IN [m4 EXCEPT !.state = [width |-> w, height |-> h]]

\* resize: w, h are window.innerWidth / innerHeight at the call, r is pixelRatio
resize2(m, w, h, r) ==
  LET m1 == SetCanvasWidth(CountSizer(m), w * r, RatioDen)
      m2 == SetCanvasHeight(m1, h * r, RatioDen)
      m3 == [m2 EXCEPT !.canvas.styleWidth = Px(w), !.canvas.styleHeight = Px(h)]
      m4 == Scale(m3, r, RatioDen)
  IN [m4 EXCEPT !.state = [width |-> w, height |-> h]]

\* loop without the trailing requestAnimationFrame(loop)
loop2_NoRerequest(m, time) ==
  LET dt == time - m.prevTime
      m1 == SetPrevTime(m, time)
      m2 == update2(m1, dt)
  IN draw2(m2)

\* loop that overwrites prevTime before it computes dt
loop2_DtAfterOverwrite(m, time) ==
  LET m1 == SetPrevTime(m, time)
      dt == time - m1.prevTime
      m2 == update2(m1, dt)
      m3 == draw2(m2)
  IN RequestAnimationFrame(m3, "loop")

loop2(m, time) ==
  LET dt == time - m.prevTime
      m1 == SetPrevTime(m, time)
      m2 == update2(m1, dt)
      m3 == draw2(m2)
  IN RequestAnimationFrame(m3, "loop")

\* first callback that does not request loop
priming2_NoRequest(m, time) == SetPrevTime(m, time)

\* first callback that leaves prevTime at 0
priming2_NoBaseline(m, time) == RequestAnimationFrame(m, "loop")

\* loop itself registered as the first callback
priming2_IsLoop(m, time) == loop2(m, time)

\* the first frame callback: (time) => { prevTime = time; requestAnimationFrame(loop) }
priming2(m, time) ==
  RequestAnimationFrame(SetPrevTime(m, time), "loop")

\* ------------------------------------------------ variant "static" (72..107)
\* resize that reads window.devicePixelRatio again instead of pixelRatio
resize3_RereadsRatio(m, w, h, r) ==
  LET m1 == SetCanvasWidth(CountSizer(m), w * devicePixelRatio, RatioDen)
      m2 == SetCanvasHeight(m1, h * devicePixelRatio, RatioDen)
      m3 == [m2 EXCEPT !.canvas.styleWidth = Px(w), !.canvas.styleHeight = Px(h)]
      m4 == Scale(m3, devicePixelRatio, RatioDen)
  IN [m4 EXCEPT !.state = [width |-> w, height |-> h]]

resize3(m, w, h, r) ==
  LET m1 == SetCanvasWidth(CountSizer(m), w * r, RatioDen)
      m2 == SetCanvasHeight(m1, h * r, RatioDen)
      m3 == [m2 EXCEPT !.canvas.styleWidth = Px(w), !.canvas.styleHeight = Px(h)]
      m4 == Scale(m3, r, RatioDen)
  IN [m4 EXCEPT !.state = [width |-> w, height |-> h]]

draw3(m) == StrokeLine(CountDrawer(m), m.state.width, m.state.height)

\* resizeDraw that skips the pass when the viewport size did not change
resizeDraw3_Coalesced(m, w, h, r) ==
  IF m.sizerRuns > 0 /\ m.state = [width |-> w, height |-> h]
    THEN m
    ELSE draw3(resize3(m, w, h, r))

\* resizeDraw that draws before it sizes
resizeDraw3_DrawFirst(m, w, h, r) == resize3(draw3(m), w, h, r)

resizeDraw3(m, w, h, r) == draw3(resize3(m, w, h, r))

\* ---------------------------------------------------------------- turns
\* the machine after a turn becomes the state
Commit(m) ==
  /\ canvas' = m.canvas
  /\ ctx' = m.ctx
  /\ surface' = m.surface
  /\ state' = m.state
  /\ prevTime' = m.prevTime
  /\ rafPending' = m.rafPending
  /\ sizerRuns' = m.sizerRuns
  /\ drawRuns' = m.drawRuns
  /\ turn' = m.turn
  /\ updateArgs' = m.updateArgs

Init ==
  /\ variant \in Variants
  /\ started = FALSE
  /\ innerWidth \in Dims
  /\ innerHeight \in Dims
  /\ devicePixelRatio \in Ratios
  /\ pixelRatio = 0
  /\ state = [width |-> 0, height |-> 0]
  \* the size the page's markup gives the element is not part of the scripts
  /\ \E cw \in Dims, ch \in Dims :
       canvas = [width |-> cw, height |-> ch, styleWidth |-> NoStyle, styleHeight |-> NoStyle]
  /\ ctx = [scale |-> Identity]
  /\ surface = <<>>
  /\ prevTime = 0
  /\ rafPending = <<>>
  /\ resizeCount = 0
  /\ sizerRuns = 0
  /\ drawRuns = 0
  /\ turn = <<>>
  /\ updateArgs = <<>>
  /\ frameTimes = <<>>
  /\ tick = FALSE
  /\ lastNotified = [width |-> 0, height |-> 0, ratio |-> 0]

\* The top-level script, run once when the page loads.
\*   plain:    addEventListener('resize', resizeDraw); resizeDraw()
\*   animated: pixelRatio read; addEventListener('resize', resize); resize();
\*             prevTime = 0; requestAnimationFrame(first callback)
\*   static:   pixelRatio read; addEventListener('resize', resizeDraw); resizeDraw()
\* (the ratio handed to the first sizing is the pixelRatio just read)
Startup ==
  /\ ~started
  /\ started' = TRUE
  /\ pixelRatio' = IF variant = "plain" THEN pixelRatio ELSE devicePixelRatio
  /\ lastNotified' = [width |-> innerWidth, height |-> innerHeight,
                       ratio |-> devicePixelRatio]
  /\ \E m \in {CASE variant = "plain" ->
                     resizeDraw1(Turn("load"), innerWidth, innerHeight)
                [] variant = "animated" ->
                     LET m1 == resize2(Turn("load"), innerWidth, innerHeight,
                                       devicePixelRatio)
                         m2 == [m1 EXCEPT !.prevTime = 0]
                     IN RequestAnimationFrame(m2, "priming")
                [] variant = "static" ->
                     resizeDraw3(Turn("load"), innerWidth, innerHeight,
                                 devicePixelRatio)} : Commit(m)
  /\ UNCHANGED <<variant, hostVars, resizeCount, frameTimes, tick>>

\* The host resizes the viewport to (w, h) and calls the 'resize' listener.
ResizeNotification ==
  /\ started
  /\ resizeCount < MaxResizes
  /\ \E w \in Dims, h \in Dims :
       /\ innerWidth' = w
       /\ innerHeight' = h
       /\ lastNotified' = [width |-> w, height |-> h, ratio |-> devicePixelRatio]
       /\ \E m \in {CASE variant = "plain" -> resizeDraw1(Turn("resize"), w, h)
                     [] variant = "animated" -> resize2(Turn("resize"), w, h, pixelRatio)
                     [] variant = "static" -> resizeDraw3(Turn("resize"), w, h, pixelRatio)} :
            Commit(m)
  /\ resizeCount' = resizeCount + 1
  /\ UNCHANGED <<variant, started, devicePixelRatio, pixelRatio, frameTimes, tick>>

\* history: keep the last two timestamps the host delivered
Delivered(t) ==
  IF Len(frameTimes) < 2 THEN Append(frameTimes, t) ELSE <<frameTimes[2], t>>

\* timestamps the host may deliver next: not before the previous one
NextTimes ==
  IF frameTimes = <<>> THEN Times
  ELSE {t \in Times : t >= frameTimes[Len(frameTimes)]}

\* The host runs the oldest requested callback, the first-frame closure, with
\* timestamp t; what the callback requests is run in a later turn.
FramePriming ==
  /\ started
  /\ rafPending # <<>>
  /\ Head(rafPending) = "priming"
  /\ \E t \in NextTimes :
       /\ frameTimes' = Delivered(t)
       /\ \E m \in {priming2([Turn("frame") EXCEPT !.rafPending = Tail(rafPending)], t)} :
            Commit(m)
  /\ tick' = ~tick
  /\ UNCHANGED <<variant, started, hostVars, pixelRatio, resizeCount, lastNotified>>

\* The host runs the oldest requested callback, loop, with timestamp t.
FrameLoop ==
  /\ started
  /\ rafPending # <<>>
  /\ Head(rafPending) = "loop"
  /\ \E t \in NextTimes :
       /\ frameTimes' = Delivered(t)
       /\ \E m \in {loop2([Turn("frame") EXCEPT !.rafPending = Tail(rafPending)], t)} :
            Commit(m)
  /\ tick' = ~tick
  /\ UNCHANGED <<variant, started, hostVars, pixelRatio, resizeCount, lastNotified>>

\* The display's density changes while the page runs (no listener call).
DensityChange ==
  /\ \E r \in Ratios \ {devicePixelRatio} : devicePixelRatio' = r
  /\ UNCHANGED <<variant, started, innerWidth, innerHeight, pixelRatio, state, canvas,
                 ctx, surface, prevTime, rafPending, resizeCount, sizerRuns, drawRuns,
                 turn, updateArgs, frameTimes, tick, lastNotified>>

\* The host delivers the pending frame callback.  Within Next these are
\* exactly the FramePriming and FrameLoop steps (the only ones that flip tick),
\* and one is possible exactly when a callback is pending.
FrameDelivery == rafPending # <<>> /\ tick' = ~tick

Next == Startup \/ ResizeNotification \/ FramePriming \/ FrameLoop \/ DensityChange

Spec == Init /\ [][Next]_vars

\* The page load runs the script, and the host delivers every frame it was asked for.
LiveSpec == Spec /\ WF_vars(Startup) /\ WF_tick(FrameDelivery)

\* ------------------------------------------------------------ vocabulary
\* ViewportState: state.canvas, or the canvas's own size in the variant without it
ViewportState ==
  IF variant = "plain" THEN <<canvas.width, canvas.height>>
  ELSE <<state.width, state.height>>

InTurn(name) == \E i \in DOMAIN turn : turn[i] = name
Event == IF turn = <<>> THEN "none" ELSE turn[1]
Before(a, b) == \E i, j \in DOMAIN turn : i < j /\ turn[i] = a /\ turn[j] = b
LastStroke == surface[Len(surface)]
LastFrame == frameTimes[Len(frameTimes)]
Sized == started /\ variant # "plain"

\* x is the integer part of n / RatioDen
IntegerPartOf(x, n) == x * RatioDen <= n /\ n < (x + 1) * RatioDen

\* ------------------------------------------------------------------- C1
\* C1 as stated: after the startup sizing and after every resize notification
\* the backing resolution is exactly (w*r, h*r), the CSS size is (w, h) and
\* state.canvas is (w, h).
C1_BackingIsExactProduct ==
  Sized =>
    /\ canvas.width * RatioDen = lastNotified.width * pixelRatio
    /\ canvas.height * RatioDen = lastNotified.height * pixelRatio
    /\ canvas.styleWidth = Px(lastNotified.width)
    /\ canvas.styleHeight = Px(lastNotified.height)
    /\ state = [width |-> lastNotified.width, height |-> lastNotified.height]

\* C1 amended: after the startup sizing and after every resize notification
\* the backing resolution is the integer part of (w*r, h*r), the CSS size is
\* (w, h) and state.canvas is (w, h).
C1_BackingIsIntegerPartOfProduct ==
  Sized =>
    /\ IntegerPartOf(canvas.width, lastNotified.width * pixelRatio)
    /\ IntegerPartOf(canvas.height, lastNotified.height * pixelRatio)
    /\ canvas.styleWidth = Px(lastNotified.width)
    /\ canvas.styleHeight = Px(lastNotified.height)
    /\ state = [width |-> lastNotified.width, height |-> lastNotified.height]

\* a resize notification handled at a fractional product w*r
C1_Witness ==
  /\ Sized
  /\ Event = "resize"
  /\ (lastNotified.width * pixelRatio) % RatioDen # 0
  /\ canvas.width * RatioDen < lastNotified.width * pixelRatio

\* ------------------------------------------------------------------- C2
\* C2: whenever the Drawer has run, the segment it stroked goes from (0,0) to
\* (ViewportState.width, ViewportState.height) in user space, and user space
\* is the logical coordinate system: the transform in force is the density
\* ratio (identity in the variant that has none).
C2_LineSpansViewportState ==
  InTurn("Drawer") =>
    /\ surface # <<>>
    /\ LastStroke.from = <<0, 0>>
    /\ LastStroke.to = ViewportState
    /\ IF variant = "plain"
         THEN LastStroke.scale.num = LastStroke.scale.den
         ELSE LastStroke.scale.num * RatioDen = pixelRatio * LastStroke.scale.den

\* a draw after two resize notifications, at a density ratio above 1
C2_Witness ==
  /\ variant = "animated"
  /\ InTurn("Drawer")
  /\ resizeCount = MaxResizes
  /\ pixelRatio > RatioDen
  /\ LastStroke.to = <<MaxDim, MaxDim>>

\* ------------------------------------------------------------------- C3
\* C3: the first frame callback passes no dt to update; every later callback
\* calls update with dt = its timestamp minus the previous callback's, >= 0.
C3_DtIsTimestampDifference ==
  [][tick' # tick =>
       IF frameTimes = <<>>
         THEN updateArgs' = <<>>
         ELSE /\ updateArgs' = << frameTimes'[Len(frameTimes')] - LastFrame >>
              /\ updateArgs'[1] >= 0]_vars

\* a running callback delivered MaxTime - 1 after the previous callback
C3_Witness ==
  /\ variant = "animated"
  /\ Event = "frame"
  /\ frameTimes = <<1, MaxTime>>
  /\ updateArgs = <<MaxTime - 1>>
  /\ prevTime = MaxTime

\* ------------------------------------------------------------------- C4
\* C4 as stated: the handling of every resize notification is one Sizer pass
\* followed by one Drawer pass.
C4_EveryNotificationSizesAndDraws ==
  Event = "resize" => turn = <<"resize", "Sizer", "Drawer">>

\* C4 amended: every resize notification runs the Sizer exactly once, with no
\* coalescing (n notifications: n Sizer runs after the startup one), and
\* leaves ViewportState at the size of the last notification; its handling
\* also runs the Drawer once in the two static variants, and does not run the
\* Drawer in the animated variant.
C4_EveryNotificationSizes ==
  started =>
    /\ sizerRuns = resizeCount + 1
    /\ ViewportState = <<lastNotified.width, lastNotified.height>>
    /\ variant # "animated" => drawRuns = resizeCount + 1
    /\ Event = "resize" =>
         IF variant = "animated"
           THEN turn = <<"resize", "Sizer">>
           ELSE turn = <<"resize", "Sizer", "Drawer">>

\* two notifications in succession, the second one at the same size as the first
C4_Witness ==
  /\ variant = "static"
  /\ resizeCount = 2
  /\ sizerRuns = 3
  /\ drawRuns = 3
  /\ Event = "resize"
  /\ ViewportState = <<1, 0>>
  /\ Len(surface) = 1

\* ------------------------------------------------------------------- C5
\* C5: whenever the Drawer has run, the width and height it drew with are
\* non-negative and are those of the latest load or resize event handled.
C5_DrawSeesLatestSize ==
  InTurn("Drawer") =>
    /\ surface # <<>>
    /\ LastStroke.to = <<lastNotified.width, lastNotified.height>>
    /\ LastStroke.to[1] >= 0
    /\ LastStroke.to[2] >= 0

\* a frame drawn after the last of several resize notifications
C5_Witness ==
  /\ variant = "animated"
  /\ Event = "frame"
  /\ InTurn("Drawer")
  /\ resizeCount = MaxResizes
  /\ lastNotified.width = 0
  /\ lastNotified.height = MaxDim

\* ------------------------------------------------------------------- C6
\* C6: in the animated variant the Frame Driver is priming until its first
\* callback and running ever after; the first callback only stores its
\* timestamp in prevTime (no update, no draw), and every later callback is
\* the loop step (update, draw, next request).
C6_PrimingThenRunning ==
  (started /\ variant = "animated") =>
    /\ rafPending = (IF frameTimes = <<>> THEN <<"priming">> ELSE <<"loop">>)
    /\ Len(frameTimes) <= 1 => drawRuns = 0
    /\ (Event = "frame" /\ Len(frameTimes) = 1) =>
         /\ turn = <<"frame", "prevTime", "requestAnimationFrame">>
         /\ updateArgs = <<>>
         /\ prevTime = frameTimes[1]
    /\ (Event = "frame" /\ Len(frameTimes) = 2) =>
         turn = <<"frame", "prevTime", "update", "Drawer", "requestAnimationFrame">>

\* right after the first callback, delivered at a timestamp above 0
C6_Witness ==
  /\ variant = "animated"
  /\ Event = "frame"
  /\ frameTimes = <<1>>
  /\ prevTime = 1
  /\ rafPending = <<"loop">>
  /\ drawRuns = 0

\* ------------------------------------------------------------------- C7
\* C7: in the animated variant, if the host delivers every frame it is asked
\* for, the Drawer (and update before it) runs again and again for ever: the
\* count of Drawer runs, kept modulo DrawMod, passes 0 and 1 infinitely often.
C7_DrawsForever ==
  /\ []<>(variant = "animated" => drawRuns = 0)
  /\ []<>(variant = "animated" => drawRuns = 1)

\* the loop has run DrawMod times and a frame is still pending
C7_Witness ==
  /\ variant = "animated"
  /\ Event = "frame"
  /\ Len(frameTimes) = 2
  /\ drawRuns = 0
  /\ rafPending = <<"loop">>

\* ------------------------------------------------------------------- C8
\* C8: when the Drawer runs in two turns in a row with ViewportState and the
\* surface size unchanged, the bitmap after the second run is the bitmap
\* after the first.
C8_DrawerIdempotent ==
  [][(/\ InTurn("Drawer")
      /\ drawRuns' # drawRuns
      /\ ViewportState' = ViewportState
      /\ canvas' = canvas) => surface' = surface]_vars

\* the second of two frames drawn with no resize notification in between
C8_Witness ==
  /\ variant = "animated"
  /\ resizeCount = 0
  /\ drawRuns = 2
  /\ Event = "frame"
  /\ surface = << [from |-> <<0, 0>>, to |-> ViewportState, scale |-> ctx.scale] >>
  /\ ViewportState = <<MaxDim, MaxDim>>

\* ------------------------------------------------------------------- C9
\* C9: pixelRatio is read from the host once, by the top-level script, and no
\* later turn changes it; every Sizer pass uses it, also when the host's
\* ratio has changed since.
C9_RatioReadOnce ==
  /\ [][/\ (~started /\ started' /\ variant # "plain") => pixelRatio' = devicePixelRatio
        /\ started => pixelRatio' = pixelRatio]_vars
  /\ [](Sized =>
          /\ ctx.scale.num * RatioDen = pixelRatio * ctx.scale.den
          /\ IntegerPartOf(canvas.width, lastNotified.width * pixelRatio)
          /\ IntegerPartOf(canvas.height, lastNotified.height * pixelRatio))

\* a resize notification handled while the host's ratio differs from pixelRatio
C9_Witness ==
  /\ variant = "static"
  /\ Event = "resize"
  /\ lastNotified.ratio # pixelRatio
  /\ lastNotified.width = 1
  /\ ~IntegerPartOf(canvas.width, lastNotified.width * lastNotified.ratio)

\* ------------------------------------------------------------------ C10
\* C10 as stated: every Drawer invocation runs after a Sizer invocation
\* inside the same turn.
C10_DrawAfterSizerInSameTurn ==
  InTurn("Drawer") => Before("Sizer", "Drawer")

\* C10 amended: ViewportState is written only in turns that run the Sizer; in
\* the two static variants every Drawer invocation runs after a Sizer
\* invocation inside the same turn; in the animated variant the Drawer runs
\* in frame callback turns, which run no Sizer, and reads what the Sizer
\* wrote in an earlier turn (the startup sizing or a later resize).
C10_SingleWriterReadersAfter ==
  /\ [][ViewportState' # ViewportState => \E i \in DOMAIN turn' : turn'[i] = "Sizer"]_vars
  /\ [](InTurn("Drawer") =>
          IF variant = "animated"
            THEN Event = "frame" /\ ~InTurn("Sizer") /\ sizerRuns >= 1
            ELSE Before("Sizer", "Drawer"))

\* an animated frame drawn in a turn of its own, after a resize turn
C10_Witness ==
  /\ variant = "animated"
  /\ turn = <<"frame", "prevTime", "update", "Drawer", "requestAnimationFrame">>
  /\ sizerRuns = 2

\* ------------------------------------------------------------------ C11
\* C11 as stated: after any number of Sizer passes the transform is the
\* density ratio r on both axes, and the logical point
\* (ViewportState.width, ViewportState.height) maps exactly onto the
\* bottom-right corner of the backing store.
C11_ScaleIsRatioCornerExact ==
  Sized =>
    /\ ctx.scale.num * RatioDen = pixelRatio * ctx.scale.den
    /\ state.width * ctx.scale.num = canvas.width * ctx.scale.den
    /\ state.height * ctx.scale.num = canvas.height * ctx.scale.den

\* C11 amended: after any number n >= 1 of Sizer passes the transform is
\* exactly the density ratio r on both axes, not r^n, and the logical point
\* (ViewportState.width, ViewportState.height) maps to (w*r, h*r), whose
\* integer part is the bottom-right corner of the backing store (the corner
\* itself whenever w*r and h*r are whole numbers).
C11_ScaleIsRatioCornerWithinPixel ==
  Sized =>
    /\ ctx.scale.num * RatioDen = pixelRatio * ctx.scale.den
    /\ canvas.width * ctx.scale.den <= state.width * ctx.scale.num
    /\ state.width * ctx.scale.num < (canvas.width + 1) * ctx.scale.den
    /\ canvas.height * ctx.scale.den <= state.height * ctx.scale.num
    /\ state.height * ctx.scale.num < (canvas.height + 1) * ctx.scale.den

\* three Sizer passes at a ratio above 1, the last one at a non-empty size
C11_Witness ==
  /\ variant = "animated"
  /\ sizerRuns = 3
  /\ pixelRatio > RatioDen
  /\ state = [width |-> MaxDim, height |-> MaxDim]
  /\ ctx.scale = [num |-> pixelRatio, den |-> RatioDen]

\* ------------------------------------------------------------------ C12
\* C12: every running frame callback computes dt from the old prevTime,
\* then overwrites prevTime with its timestamp, then calls update(dt), then
\* draw(), then requests the next frame: update before draw, one draw a frame.
C12_LoopOrder ==
  [][(tick' # tick /\ frameTimes # <<>>) =>
       /\ turn' = <<"frame", "prevTime", "update", "Drawer", "requestAnimationFrame">>
       /\ updateArgs' = << frameTimes'[Len(frameTimes')] - prevTime >>
       /\ prevTime' = frameTimes'[Len(frameTimes')]
       /\ drawRuns' = (drawRuns + 1) % DrawMod]_vars

\* a running frame delivered MaxTime after the frame before it
C12_Witness ==
  /\ variant = "animated"
  /\ turn = <<"frame", "prevTime", "update", "Drawer", "requestAnimationFrame">>
  /\ frameTimes = <<0, MaxTime>>
  /\ updateArgs = <<MaxTime>>
  /\ prevTime = MaxTime
  /\ drawRuns = 1

\* ------------------------------------------------------------------ C13
\* the requestAnimationFrame calls made in the latest turn
RequestsInTurn == Cardinality({i \in DOMAIN turn : turn[i] = "requestAnimationFrame"})

\* C13: in the animated variant exactly one frame callback is requested and
\* not yet run between any two turns after startup: each frame callback makes
\* exactly one request and a resize notification makes none.
C13_OneFramePending ==
  (started /\ variant = "animated") =>
    /\ Len(rafPending) = 1
    /\ Event = "resize" => RequestsInTurn = 0
    /\ Event = "frame" => RequestsInTurn = 1
    /\ Event = "load" => RequestsInTurn = 1

\* a frame run after the last resize notification, itself after earlier frames
C13_Witness ==
  /\ variant = "animated"
  /\ resizeCount = MaxResizes
  /\ Event = "frame"
  /\ Len(frameTimes) = 2
  /\ drawRuns = 1
  /\ surface # <<>>
  /\ rafPending = <<"loop">>

\* ------------------------------------------------------------------ C14
\* C14: in the animated variant, if the host delivers every frame it is asked
\* for, every resize notification is eventually followed by a Drawer run that
\* draws with the size of the latest notification; right after the
\* notification the bitmap is blank (the line for the new size is not drawn).
C14_ResizeLeadsToDraw ==
  /\ []((variant = "animated" /\ Event = "resize") => surface = <<>>)
  /\ (variant = "animated" /\ Event = "resize")
       ~> (/\ InTurn("Drawer")
           /\ surface # <<>>
           /\ LastStroke.to = <<lastNotified.width, lastNotified.height>>)

\* the first Drawer run of the page, in a frame that follows a resize notification
C14_Witness ==
  /\ variant = "animated"
  /\ resizeCount = 1
  /\ drawRuns = 1
  /\ Event = "frame"
  /\ InTurn("Drawer")
  /\ Len(surface) = 1
  /\ LastStroke.to = <<lastNotified.width, lastNotified.height>>

\* ------------------------------------------------------------------ C15
\* C15: in the animated variant a frame callback turn (Frame Driver, update,
\* Drawer) leaves ViewportState, the canvas's backing and CSS sizes and the
\* context's transform unchanged; only turns that run the Sizer change them;
\* and a resize notification turn leaves prevTime and the requested frame
\* callback (priming or loop) unchanged.
C15_FrameEffects ==
  [][/\ tick' # tick => UNCHANGED <<state, canvas, ctx>>
     /\ <<state, canvas, ctx>>' # <<state, canvas, ctx>> =>
          \E i \in DOMAIN turn' : turn'[i] = "Sizer"
     /\ (variant = "animated" /\ resizeCount' # resizeCount) =>
          UNCHANGED <<prevTime, rafPending>>]_vars

\* a running frame drawn under a ratio above 1, after a resize notification
C15_Witness ==
  /\ variant = "animated"
  /\ Event = "frame"
  /\ InTurn("Drawer")
  /\ sizerRuns = 2
  /\ prevTime = MaxTime
  /\ ctx.scale = [num |-> 2 * RatioDen, den |-> RatioDen]
  /\ canvas.width = 2 * MaxDim
  /\ canvas.styleWidth = Px(MaxDim)

\* ------------------------------------------------------------------ C16
\* C16: in every variant the startup Sizer pass completes before the first
\* Drawer run: nothing is drawn before the script has run, the script's turn
\* sizes first, and every stroke on the bitmap was drawn with a size the
\* Sizer stored (that of the latest load or resize event), never with the
\* placeholder the script starts from.
C16_SizedBeforeFirstDraw ==
  /\ ~started =>
       /\ drawRuns = 0
       /\ sizerRuns = 0
       /\ surface = <<>>
       /\ rafPending = <<>>
       /\ state = [width |-> 0, height |-> 0]
  /\ Event = "load" =>
       IF variant = "animated"
         THEN turn = <<"load", "Sizer", "requestAnimationFrame">>
         ELSE turn = <<"load", "Sizer", "Drawer">>
  /\ InTurn("Drawer") => sizerRuns >= 1
  /\ \A i \in DOMAIN surface :
       surface[i].to = <<lastNotified.width, lastNotified.height>>

\* the first frame drawn, with no resize notification yet, at a non-zero size
C16_Witness ==
  /\ variant = "animated"
  /\ resizeCount = 0
  /\ sizerRuns = 1
  /\ drawRuns = 1
  /\ InTurn("Drawer")
  /\ LastStroke.to = <<MaxDim, MaxDim>>

====
